---- MODULE Spec2Model ----
(***************************************************************************)
(* Model of arcbck.run (src/src/arcbck/arcbck.py): one backup run.         *)
(* The run creates its dated directory, evicts old generations from the    *)
(* archive root, searches the items to back up, seeds the ledger           *)
(* (backup_log) and the request queue, and drains the queue on a single    *)
(* thread, writing the ledger to disk after every change.                  *)
(*                                                                         *)
(* File names are sequences of one-character strings.  A date is the day   *)
(* number parsed by the date format; NoDate stands for Python's None.      *)
(***************************************************************************)
EXTENDS Integers, Sequences, FiniteSets, TLC

\* ---------------------------------------------------------------- bounds
MaxDirs == 3          \* entries in the archive root before the run
MaxKeep == 3          \* largest archive_number tried
MaxItems == 2         \* items the search returns after filtering
MaxRetriesBound == 2  \* largest max_retries tried

\* ------------------------------------------------------- run parameters
backup_directory_prefix == <<"b">>
date_format == <<"%d">>
Today == 4            \* datetime.now() rendered by date_format

NoDate == 0           \* None returned by _extract_date_from_filename

Digits == {"0", "1", "2", "3", "4", "5", "6", "7", "8", "9"}

DigitVal(c) ==
  CASE c = "0" -> 0 [] c = "1" -> 1 [] c = "2" -> 2 [] c = "3" -> 3
    [] c = "4" -> 4 [] c = "5" -> 5 [] c = "6" -> 6 [] c = "7" -> 7
    [] c = "8" -> 8 [] c = "9" -> 9

DigitChar(n) ==
  CASE n = 0 -> "0" [] n = 1 -> "1" [] n = 2 -> "2" [] n = 3 -> "3"
    [] n = 4 -> "4" [] n = 5 -> "5" [] n = 6 -> "6" [] n = 7 -> "7"
    [] n = 8 -> "8" [] n = 9 -> "9"

\* format_map of _convert_date_format_to_regex: placeholder -> digit count
format_map ==
  [p \in {"%Y", "%m", "%d", "%H", "%M", "%S"} |-> IF p = "%Y" THEN 4 ELSE 2]

Repeat(x, n) == [i \in 1..n |-> x]

\* The regular expression as a sequence of atoms: "\\d" matches one digit,
\* any other atom matches itself.
RECURSIVE _convert_date_format_to_regex(_)
_convert_date_format_to_regex(fmt) ==
  IF fmt = <<>> THEN <<>>
  ELSE (IF Head(fmt) \in DOMAIN format_map
          THEN Repeat("\\d", format_map[Head(fmt)])
          ELSE <<Head(fmt)>>)
       \o _convert_date_format_to_regex(Tail(fmt))

AtomMatches(atom, c) == IF atom = "\\d" THEN c \in Digits ELSE c = atom

\* pattern.match at one position of the file name
MatchesAt(filename, pos, pattern) ==
  /\ pos + Len(pattern) - 1 <= Len(filename)
  /\ \A k \in 1..Len(pattern) : AtomMatches(pattern[k], filename[pos + k - 1])

\* pattern.search: the leftmost position where the pattern matches, 0 if none
Search(filename, pattern) ==
  LET hits == {p \in 1..Len(filename) : MatchesAt(filename, p, pattern)}
  IN IF hits = {} THEN 0 ELSE CHOOSE p \in hits : \A q \in hits : p <= q

RECURSIVE DecimalValue(_)
DecimalValue(s) ==
  IF s = <<>> THEN 0
  ELSE 10 * DecimalValue(SubSeq(s, 1, Len(s) - 1)) + DigitVal(s[Len(s)])

\* datetime.strptime for the day-of-month field: ValueError outside 01..31
Strptime(date_str, fmt) ==
  LET v == DecimalValue(date_str)
  IN IF v >= 1 /\ v <= 31 THEN v ELSE NoDate

\* datetime.strftime for the day-of-month field
Strftime(day, fmt) == <<DigitChar(day \div 10), DigitChar(day % 10)>>

_extract_date_from_filename(filename, prefix, fmt) ==
  LET date_regex == _convert_date_format_to_regex(fmt)
      pattern == prefix \o date_regex
      pos == Search(filename, pattern)
  IN IF pos = 0 THEN NoDate
     ELSE Strptime(SubSeq(filename, pos + Len(prefix),
                          pos + Len(pattern) - 1), fmt)

current_date == Strftime(Today, date_format)
directory_name == backup_directory_prefix \o current_date

\* Names an archive root may hold before the run.
NamePool ==
  { <<"b", "0", "1">>,        \* generation of day 1
    <<"b", "0", "2">>,        \* generation of day 2
    <<"b", "0", "3">>,        \* generation of day 3
    <<"x", "b", "0", "1">>,   \* the prefix and a date inside the name
    <<"b", "0", "0">>,        \* matches the pattern, not a date
    <<"b", "0">>,             \* prefix, too few digits
    <<"t", "m", "p">>,        \* no prefix
    <<"b", "0", "2", "z">>,   \* a plain file, not a directory
    directory_name }          \* today's directory already there

PlainFiles == { <<"b", "0", "2", "z">> }

\* os.path.isdir
IsDir(name) == name \notin PlainFiles

\* Item types: item.type of the items the search returns
ExportTypes == {"Feature Service", "Vector Tile Service"}
backup_exclude_types == {"Code Sample"}

\* What gis.content.search may return.  backup_title: the title already
\* carries backup_file_suffix and 32 hex digits.  plan: the number of
\* leading pipeline attempts on the item in which a provider call fails.
RemotePool ==
  [type : {"Feature Service", "Web Map"}, backup_title : {FALSE},
   plan : 0..MaxRetriesBound]
  \cup { [type |-> "Code Sample", backup_title |-> FALSE, plan |-> 0],
         [type |-> "Web Map", backup_title |-> TRUE, plan |-> 0] }

SeqsUpTo(S, n) == UNION {[1..k -> S] : k \in 0..n}

NoneInt == -1         \* None in an integer field of the ledger

\* backup_log as the module defines it
InitialLog ==
  [info |-> [date |-> <<>>, directory |-> <<>>, success |-> "None",
             total_items |-> NoneInt, backed_up_items |-> 0,
             size |-> NoneInt],
   items |-> <<>>]

VARIABLES
  pc,                    \* position of run()
  exc,                   \* exception that left run(), "none" while running
  rootExists,            \* backup_directory exists
  entries,               \* names in backup_directory
  archive_number, max_retries, delete_backup_online, ignore_existing,
  remote_items,          \* what the search returns, with each item's plan
  evicted,               \* names shutil.rmtree removed
  backup_log,            \* the ledger in memory
  disk,                  \* the ledger file in the run directory
  filtered_items,        \* items that passed the filter
  request_queue,         \* FIFO of [item, retry]
  backup_count,          \* backup_count[0]
  cur,                   \* the queue entry being processed
  delete,                \* local 'delete' of backup_item
  item_filename,         \* local 'item_filename' of backup_item
  exported,              \* export titles created on the server
  delete_calls,          \* arguments delete_item was called with
  downloaded,            \* files written under the run directory
  attempts               \* pipeline invocations per item

vars == <<pc, exc, rootExists, entries, archive_number, max_retries,
          delete_backup_online, ignore_existing, remote_items, evicted,
          backup_log, disk, filtered_items, request_queue, backup_count,
          cur, delete, item_filename, exported, delete_calls, downloaded,
          attempts>>

params == <<archive_number, max_retries, delete_backup_online,
            ignore_existing, remote_items>>
archive == <<rootExists, entries, evicted>>
pipeline == <<filtered_items, request_queue, backup_count, cur, delete,
              item_filename, exported, delete_calls, downloaded, attempts>>

NoEntry == [item |-> 0, retry |-> 0]
NoName == [title |-> 0, token |-> 0]
NoFile == [state |-> "absent", doc |-> InitialLog]

BoundedRoots == {S \in SUBSET NamePool : Cardinality(S) <= MaxDirs}

InitCommon ==
  /\ pc = "create"
  /\ exc = "none"
  /\ evicted = {}
  /\ backup_log = InitialLog
  /\ disk = NoFile
  /\ filtered_items = <<>>
  /\ request_queue = <<>>
  /\ backup_count = 0
  /\ cur = NoEntry
  /\ delete = "unbound"
  /\ item_filename = NoName
  /\ exported = {}
  /\ delete_calls = <<>>
  /\ downloaded = 0
  /\ attempts = <<>>

\* Every bounded archive root and retention limit, one item to back up.
InitArchive ==
  /\ rootExists \in BOOLEAN
  /\ entries \in (IF rootExists THEN BoundedRoots ELSE {{}})
  /\ archive_number \in 0..MaxKeep
  /\ max_retries = 1
  /\ delete_backup_online = TRUE
  /\ ignore_existing = TRUE
  /\ remote_items =
       <<[type |-> "Feature Service", backup_title |-> FALSE, plan |-> 0]>>

\* Every bounded search result and retry limit, one archive root.
InitItems ==
  /\ rootExists = TRUE
  /\ entries = {<<"b", "0", "1">>}
  /\ archive_number = 2
  /\ max_retries \in 0..MaxRetriesBound
  /\ delete_backup_online \in BOOLEAN
  /\ ignore_existing \in BOOLEAN
  /\ remote_items \in SeqsUpTo(RemotePool, MaxItems)

Init == InitCommon /\ (InitArchive \/ InitItems)

\* json.dumps raises TypeError on an exception object
JsonSerializable(log) ==
  \A i \in 1..Len(log.items) : log.items[i].error = "None"

RunDirExists(ents) == directory_name \in ents

\* _save_json_log: the outcome and the file it leaves.  open(path, 'w')
\* truncates the file before json.dumps runs.
SaveOutcome(ents, log) ==
  IF ~RunDirExists(ents) THEN "FileNotFoundError"
  ELSE IF ~JsonSerializable(log) THEN "TypeError"
  ELSE "ok"

_save_json_log(ents, log, file) ==
  IF ~RunDirExists(ents) THEN file
  ELSE IF ~JsonSerializable(log) THEN [state |-> "empty", doc |-> InitialLog]
  ELSE [state |-> "written", doc |-> log]

\* ------------------------------------------------ create backup directory
\* lines 84-109
CreateDirectory ==
  /\ pc = "create"
  /\ IF directory_name \in entries
       THEN \* FileExistsError is re-raised
            /\ pc' = "aborted"
            /\ exc' = "FileExistsError"
            /\ UNCHANGED <<rootExists, entries, backup_log, disk>>
       ELSE \E outcome \in {"ok", "base_failed", "sub_failed"} :
            /\ pc' = "retention"
            /\ exc' = exc
            /\ rootExists' = (rootExists \/ outcome # "base_failed")
            /\ entries' = IF outcome = "base_failed" THEN entries
                          ELSE entries \cup {directory_name}
            /\ backup_log' =
                 IF outcome = "ok"
                   THEN [backup_log EXCEPT !.info.date = current_date,
                                           !.info.directory = directory_name]
                   ELSE backup_log
            /\ disk' = IF outcome = "ok"
                         THEN _save_json_log(entries', backup_log', disk)
                         ELSE disk
  /\ UNCHANGED <<params, evicted, pipeline>>

\* ------------------------------------------------------ delete old backups
Perms(S) ==
  {f \in [1..Cardinality(S) -> S] : \A i, j \in DOMAIN f : i # j => f[i] # f[j]}

\* lines 136-137
existing_directories(ents) == {e \in ents : IsDir(e)}

\* ScanOldest without the test 'if date:': a name without a date competes
RECURSIVE ScanOldest_NoDateTest(_, _, _)
ScanOldest_NoDateTest(listing, oldest_date, oldest_filename) ==
  IF listing = <<>> THEN oldest_filename
  ELSE LET filename == Head(listing)
           date == _extract_date_from_filename(
                     filename, backup_directory_prefix, date_format)
       IN IF oldest_filename = <<>> \/ date < oldest_date
            THEN ScanOldest_NoDateTest(Tail(listing), date, filename)
            ELSE ScanOldest_NoDateTest(Tail(listing), oldest_date,
                                       oldest_filename)

\* lines 142-151: the scan for the oldest date over one listing;
\* <<>> stands for oldest_filename = None
RECURSIVE ScanOldest(_, _, _)
ScanOldest(listing, oldest_date, oldest_filename) ==
  IF listing = <<>> THEN oldest_filename
  ELSE LET filename == Head(listing)
           date == _extract_date_from_filename(
                     filename, backup_directory_prefix, date_format)
       IN IF date # NoDate /\ (oldest_date = NoDate \/ date < oldest_date)
            THEN ScanOldest(Tail(listing), date, filename)
            ELSE ScanOldest(Tail(listing), oldest_date, oldest_filename)

\* line 139
WithinLimit(dirs, keep) == Cardinality(dirs) - 1 < keep

\* lines 117-133: os.listdir on a missing archive root
RetentionListFails ==
  /\ pc = "retention"
  /\ ~rootExists
  /\ pc' = "aborted"
  /\ exc' = "FileNotFoundError"
  /\ UNCHANGED <<params, archive, backup_log, disk, pipeline>>

\* lines 139-140
RetentionDone ==
  /\ pc = "retention"
  /\ rootExists
  /\ WithinLimit(existing_directories(entries), archive_number)
  /\ pc' = "search"
  /\ UNCHANGED <<exc, params, archive, backup_log, disk, pipeline>>

\* lines 142-167: one pass of the loop that is over the limit
RetentionEvict ==
  /\ pc = "retention"
  /\ rootExists
  /\ ~WithinLimit(existing_directories(entries), archive_number)
  /\ \E listing \in Perms(existing_directories(entries)) :
       LET oldest_filename == ScanOldest(listing, NoDate, <<>>)
       IN IF oldest_filename = <<>>
            THEN \* os.path.join(backup_directory, None)
                 /\ pc' = "aborted"
                 /\ exc' = "TypeError"
                 /\ UNCHANGED <<entries, evicted, disk>>
            ELSE \E removed \in BOOLEAN :
                 IF removed
                   THEN /\ entries' = entries \ {oldest_filename}
                        /\ evicted' = evicted \cup {oldest_filename}
                        /\ disk' = IF oldest_filename = directory_name
                                     THEN NoFile ELSE disk
                        /\ UNCHANGED <<pc, exc>>
                   ELSE /\ pc' = "aborted"
                        /\ exc' = "PermissionError"
                        /\ UNCHANGED <<entries, evicted, disk>>
  /\ UNCHANGED <<params, rootExists, backup_log, pipeline>>

\* --------------------------------------------------------------- search
\* lines 178-179
PassesFilter(item) ==
  /\ item.type \notin backup_exclude_types
  /\ (~item.backup_title /\ ignore_existing)

\* The write of the ledger that ends a step: on success the run goes on at
\* okpc; a failure is raised to failpc ("aborted": it leaves run()).
Save(okpc, failpc) ==
  LET outcome == SaveOutcome(entries, backup_log')
  IN /\ disk' = _save_json_log(entries, backup_log', disk)
     /\ pc' = IF outcome = "ok" THEN okpc ELSE failpc
     /\ exc' = IF outcome # "ok" /\ failpc = "aborted" THEN outcome ELSE exc

\* lines 176-190
SearchItems ==
  /\ pc = "search"
  /\ LET found == SelectSeq(remote_items, PassesFilter)
         found_items == Len(found)
     IN /\ filtered_items' = found
        /\ backup_log' = [backup_log EXCEPT !.info.total_items = found_items]
        /\ disk' = _save_json_log(entries, backup_log', disk)
        /\ IF SaveOutcome(entries, backup_log') # "ok"
             THEN pc' = "aborted" /\ exc' = SaveOutcome(entries, backup_log')
             ELSE IF found_items > 0
                    THEN pc' = "seed" /\ exc' = exc
                    ELSE pc' = "aborted" /\ exc' = "SystemExit"
  /\ UNCHANGED <<params, archive, request_queue, backup_count, cur, delete,
                 item_filename, exported, delete_calls, downloaded, attempts>>

\* lines 193-202
SeededRecord(item) ==
  [type |-> item.type, status |-> "None", success |-> FALSE, retries |-> 0,
   error |-> "None", backup_path |-> "None"]

\* lines 192-203: one turn of the seeding loop
SeedItem ==
  /\ pc = "seed"
  /\ Len(backup_log.items) < Len(filtered_items)
  /\ LET item == filtered_items[Len(backup_log.items) + 1]
     IN backup_log' = [backup_log EXCEPT
                         !.items = Append(@, SeededRecord(item))]
  /\ Save("seed", "aborted")
  /\ UNCHANGED <<params, archive, pipeline>>

\* lines 288-292
FillQueue ==
  /\ pc = "seed"
  /\ Len(backup_log.items) = Len(filtered_items)
  /\ request_queue' = [i \in 1..Len(filtered_items) |-> [item |-> i, retry |-> 0]]
  /\ attempts' = [i \in 1..Len(filtered_items) |-> 0]
  /\ pc' = "loop"
  /\ UNCHANGED <<exc, params, archive, backup_log, disk, filtered_items,
                 backup_count, cur, delete, item_filename, exported,
                 delete_calls, downloaded>>

\* ------------------------------------------------------------ the pipeline
\* RequiresExport with the type test dropped: every item is exported
RequiresExport_Always(type) == TRUE

\* line 250
RequiresExport(type) == type \in ExportTypes

\* The provider calls of one attempt, in the order backup_item makes them.
LastCall(item) ==
  IF delete_backup_online /\ RequiresExport(filtered_items[item].type)
    THEN "search" ELSE "download"

\* Whether the call fails in the attempt under way: no call fails in an
\* attempt beyond the item's plan, one call fails in an attempt within it.
CallFails(call, fails) ==
  LET planned == cur.retry < filtered_items[cur.item].plan
  IN /\ fails => planned
     /\ (planned /\ call = LastCall(cur.item)) => fails

\* HasRetriesLeft off by one: an entry at the limit is processed once more
HasRetriesLeft_Inclusive(retry, limit) == retry <= limit

\* line 298
HasRetriesLeft(retry, limit) == retry < limit

\* line 276
DeleteOnSuccess(online, del) == online /\ del = "True"

\* DeleteOnFailure that never cleans up after a failed attempt
DeleteOnFailure_Never(online, del) == FALSE

\* DeleteOnFailure that forgets the local 'delete'
DeleteOnFailure_AnyType(online, del) == online

\* line 281
DeleteOnFailure(online, del) == online /\ del = "True"

\* the run never calls time.sleep: export_delay (line 72) is not used
time_slept == 0

\* CountStarted that loses the update
CountStarted_Lost(count) == count

\* line 208
CountStarted(count) == count + 1

SetStatus(log, item, status) == [log EXCEPT !.items[item].status = status]

\* lines 294-298, 207-208 and 226-227: take the next queue entry and, when
\* it has retries left, enter backup_item
Dequeue ==
  /\ pc = "loop"
  /\ request_queue # <<>>
  /\ LET entry == Head(request_queue)
     IN /\ request_queue' = Tail(request_queue)
        /\ IF HasRetriesLeft(entry.retry, max_retries)
             THEN /\ cur' = entry
                  /\ backup_count' = CountStarted(backup_count)
                  /\ attempts' = [attempts EXCEPT ![entry.item] = @ + 1]
                  /\ backup_log' = SetStatus(backup_log, entry.item, "BACKING")
                  /\ Save("backing", "run_except")
             ELSE /\ UNCHANGED <<pc, exc, cur, backup_count, attempts,
                                 backup_log, disk>>
  /\ delete' = "unbound"
  /\ item_filename' = NoName
  /\ UNCHANGED <<params, archive, filtered_items, exported, delete_calls,
                 downloaded>>

RECURSIVE Sum(_)
Sum(seq) == IF seq = <<>> THEN 0 ELSE Head(seq) + Sum(Tail(seq))

\* line 248: title + suffix + uuid4().hex; the token is the number of the
\* attempt in the run, which no other attempt has
NewFilename(item) == [title |-> item, token |-> Sum(attempts)]

\* lines 228-270: destination, file name, and the branch on the item type
Classify ==
  /\ pc = "backing"
  /\ \E fails \in BOOLEAN :
       /\ CallFails("makedirs", fails)
       /\ IF fails
            THEN /\ pc' = "except"
                 /\ UNCHANGED <<exc, backup_log, disk, delete, item_filename>>
            ELSE /\ item_filename' = NewFilename(cur.item)
                 /\ IF RequiresExport(filtered_items[cur.item].type)
                      THEN /\ delete' = "True"
                           /\ backup_log' =
                                SetStatus(backup_log, cur.item, "EXPORTING")
                           /\ Save("exporting", "except")
                      ELSE /\ delete' = "False"
                           /\ backup_log' =
                                [SetStatus(backup_log, cur.item, "DOWNLOADING")
                                   EXCEPT !.items[cur.item].backup_path = "set"]
                           /\ Save("downloading", "except")
  /\ UNCHANGED <<params, archive, filtered_items, request_queue, backup_count,
                 cur, exported, delete_calls, downloaded, attempts>>

\* lines 256-270: item.export, then the ledger moves to DOWNLOADING
Export ==
  /\ pc = "exporting"
  /\ \E fails \in BOOLEAN :
       /\ CallFails("export", fails)
       /\ IF fails
            THEN /\ pc' = "except"
                 /\ UNCHANGED <<exc, backup_log, disk, exported>>
            ELSE /\ exported' = exported \cup {item_filename}
                 /\ backup_log' =
                      [SetStatus(backup_log, cur.item, "DOWNLOADING")
                         EXCEPT !.items[cur.item].backup_path = "set"]
                 /\ Save("downloading", "except")
  /\ UNCHANGED <<params, archive, filtered_items, request_queue, backup_count,
                 cur, delete, item_filename, delete_calls, downloaded, attempts>>

\* lines 271-276: export_item.download
Download ==
  /\ pc = "downloading"
  /\ \E fails \in BOOLEAN :
       /\ CallFails("download", fails)
       /\ IF fails
            THEN pc' = "except" /\ downloaded' = downloaded
            ELSE /\ downloaded' = downloaded + 1
                 /\ pc' = IF DeleteOnSuccess(delete_backup_online, delete)
                            THEN "cleanup" ELSE "returned"
  /\ UNCHANGED <<exc, params, archive, backup_log, disk, filtered_items,
                 request_queue, backup_count, cur, delete, item_filename,
                 exported, delete_calls, attempts>>

\* lines 211-223: what delete_item leaves on the server when its search
\* returns; item.delete() may fail, which is logged and swallowed
AfterDelete(name, deleted) == IF deleted THEN exported \ {name} ELSE exported

\* lines 276-277: delete_item on the success path
Cleanup ==
  /\ pc = "cleanup"
  /\ delete_calls' = Append(delete_calls, item_filename)
  /\ \E fails \in BOOLEAN :
       /\ CallFails("search", fails)
       /\ IF fails
            THEN pc' = "except" /\ exported' = exported
            ELSE /\ pc' = "returned"
                 /\ \E deleted \in BOOLEAN :
                      exported' = AfterDelete(item_filename, deleted)
  /\ UNCHANGED <<exc, params, archive, backup_log, disk, filtered_items,
                 request_queue, backup_count, cur, delete, item_filename,
                 downloaded, attempts>>

\* lines 278-283: the except clause of backup_item; whatever happens in it,
\* an exception reaches the caller
BackupItemExcept ==
  /\ pc = "except"
  /\ backup_count' = backup_count - 1
  /\ IF DeleteOnFailure(delete_backup_online, delete)
       THEN /\ delete_calls' = Append(delete_calls, item_filename)
            /\ \E deleted \in BOOLEAN :
                 exported' = AfterDelete(item_filename, deleted)
       ELSE UNCHANGED <<delete_calls, exported>>
  /\ pc' = "run_except"
  /\ UNCHANGED <<exc, params, archive, backup_log, disk, filtered_items,
                 request_queue, cur, delete, item_filename, downloaded,
                 attempts>>

\* lines 301-303
MarkComplete ==
  /\ pc = "returned"
  /\ backup_log' = [SetStatus(backup_log, cur.item, "COMPLETE")
                      EXCEPT !.items[cur.item].success = TRUE]
  /\ Save("loop", "aborted")
  /\ UNCHANGED <<params, archive, pipeline>>

\* lines 304-311: the except clause of the queue loop
RunExcept ==
  /\ pc = "run_except"
  /\ cur' = [cur EXCEPT !.retry = @ + 1]
  /\ backup_log' = [backup_log EXCEPT
                      !.items[cur.item].retries = @ + 1,
                      !.items[cur.item].error = "Exception"]
  /\ Save("loop", "aborted")
  /\ request_queue' = IF SaveOutcome(entries, backup_log') = "ok"
                        THEN Append(request_queue, cur')
                        ELSE request_queue
  /\ UNCHANGED <<params, archive, filtered_items, backup_count, delete,
                 item_filename, exported, delete_calls, downloaded, attempts>>

\* SuccessScan that never looks at the items
SuccessScan_Unchecked(items, success) == "True"

\* lines 325-330: the loop over the item records, with its break
RECURSIVE SuccessScan(_, _)
SuccessScan(items, success) ==
  IF items = <<>> THEN success
  ELSE IF ~Head(items).success THEN "False"
  ELSE SuccessScan(Tail(items), "True")

\* lines 313-322: the files under the run directory, counted in files
get_folder_size(files) == files

\* lines 321-332: the queue is empty
Finalize ==
  /\ pc = "loop"
  /\ request_queue = <<>>
  /\ backup_log' = [backup_log EXCEPT
       !.info.size = get_folder_size(downloaded),
       !.info.backed_up_items = backup_count,
       !.info.success = SuccessScan(backup_log.items, backup_log.info.success)]
  /\ Save("done", "aborted")
  /\ UNCHANGED <<params, archive, pipeline>>

Next ==
  \/ CreateDirectory
  \/ RetentionListFails
  \/ RetentionDone
  \/ RetentionEvict
  \/ SearchItems
  \/ SeedItem
  \/ FillQueue
  \/ Dequeue
  \/ Classify
  \/ Export
  \/ Download
  \/ Cleanup
  \/ BackupItemExcept
  \/ MarkComplete
  \/ RunExcept
  \/ Finalize

Spec == Init /\ [][Next]_vars

\* ------------------------------------------------------------ properties
ParsedDate(name) ==
  _extract_date_from_filename(name, backup_directory_prefix, date_format)

\* the directories the archive root held before the run
PreExisting == {e \in (entries \cup evicted) \ {directory_name} : IsDir(e)}

Ended == pc \in {"done", "aborted"}
Seeded == 1..Len(backup_log.items)
CompleteIn(doc) == {i \in 1..Len(doc.items) : doc.items[i].status = "COMPLETE"}

\* C1 (as claimed, for K >= 1): when every pre-existing directory has a
\* parseable date and archive_number = K is below their number N, the
\* retention pass evicts exactly the N - K oldest of them and leaves the K
\* newest and the run's own directory.
C1_EvictsOldestNMinusK ==
  (/\ pc = "search"
   /\ archive_number >= 1
   /\ directory_name \in entries \cup evicted
   /\ \A e \in PreExisting : ParsedDate(e) # NoDate
   /\ archive_number < Cardinality(PreExisting))
  => /\ Cardinality(evicted) = Cardinality(PreExisting) - archive_number
     /\ evicted \subseteq PreExisting
     /\ \A e \in evicted : \A r \in PreExisting \ evicted :
          ParsedDate(e) <= ParsedDate(r)
     /\ directory_name \in entries

\* C2 (as claimed, for archive_number >= 1): the retention pass never
\* deletes the directory the run created for itself.
C2_OwnDirectoryNeverEvicted ==
  archive_number >= 1 => directory_name \notin evicted

\* C3: a directory whose name yields no date is never deleted by the
\* retention pass.
C3_UnparseableNeverEvicted == \A e \in evicted : ParsedDate(e) # NoDate

C3_Witness ==
  /\ evicted # {}
  /\ \E e \in entries : IsDir(e) /\ ParsedDate(e) = NoDate
  /\ \E e \in entries : IsDir(e) /\ Search(e, backup_directory_prefix) = 0

\* C4 (as claimed): an item whose pipeline failed max_retries times in a
\* row ends FAILED in the ledger, in memory and on disk.
C4_ExhaustedItemIsFailed ==
  \A i \in Seeded :
    (Ended /\ max_retries >= 1 /\ backup_log.items[i].retries >= max_retries)
    => /\ backup_log.items[i].status = "FAILED"
       /\ disk.state = "written"
       /\ i \in 1..Len(disk.doc.items)
       /\ disk.doc.items[i].status = "FAILED"

\* C5 (as claimed): a failed provider call ends the attempt, never the run.
C5_FailureNeverAbortsRun ==
  (\E i \in Seeded : backup_log.items[i].retries > 0) => pc # "aborted"

\* C6 (as claimed): an item whose first max_retries - 1 attempts fail and
\* whose next attempt succeeds ends COMPLETE with retries = max_retries - 1.
C6_LastAttemptSucceeds ==
  \A i \in DOMAIN attempts :
    (/\ Ended
     /\ attempts[i] >= 1
     /\ filtered_items[i].plan = max_retries - 1)
    => /\ backup_log.items[i].status = "COMPLETE"
       /\ backup_log.items[i].retries = max_retries - 1

\* C7: when the run finishes, the success flag of the ledger, in memory and
\* on disk, is true exactly when every seeded item is COMPLETE.
C7_SuccessIffAllComplete ==
  pc = "done" =>
    /\ backup_log.info.success \in {"True", "False"}
    /\ (backup_log.info.success = "True") <=> (CompleteIn(backup_log) = Seeded)
    /\ disk.state = "written"
    /\ disk.doc.info.success = backup_log.info.success

C7_Witness ==
  /\ pc = "done"
  /\ backup_log.info.success = "False"
  /\ Len(backup_log.items) = 2
  /\ CompleteIn(backup_log) = {}

C7_WitnessTrue ==
  /\ pc = "done"
  /\ backup_log.info.success = "True"
  /\ Len(backup_log.items) = 2

NoAttemptFailed == \A i \in Seeded : backup_log.items[i].retries = 0

\* C8 (as claimed): when every pipeline invocation succeeds, the run ends
\* with every seeded item COMPLETE and backed up items = total items.
C8_AllSucceedAllCounted ==
  (pc = "done" /\ NoAttemptFailed)
  => /\ CompleteIn(backup_log) = Seeded
     /\ backup_log.info.backed_up_items = backup_log.info.total_items

\* C8 (amended): the same, for max_retries >= 1.
C8_AllSucceedAllCountedWithRetries ==
  (pc = "done" /\ NoAttemptFailed /\ max_retries >= 1)
  => /\ CompleteIn(backup_log) = Seeded
     /\ backup_log.info.backed_up_items = backup_log.info.total_items
     /\ backup_log.info.total_items = Len(filtered_items)
     /\ disk.state = "written"
     /\ disk.doc = backup_log

C8_Witness ==
  /\ pc = "done"
  /\ max_retries >= 1
  /\ backup_log.info.total_items = 2
  /\ backup_log.info.backed_up_items = 2

\* C9 (as claimed): in every persisted snapshot, backed up items equals the
\* number of items whose status is COMPLETE.
C9_PersistedCountMatchesComplete ==
  disk.state = "written"
  => disk.doc.info.backed_up_items = Cardinality(CompleteIn(disk.doc))

StatusStep(i, old, new) ==
  \/ new = "BACKING" /\ old # "COMPLETE"
  \/ old = "BACKING" /\ new = "EXPORTING"
       /\ filtered_items[i].type \in ExportTypes
  \/ old = "BACKING" /\ new = "DOWNLOADING"
       /\ filtered_items[i].type \notin ExportTypes
  \/ old = "EXPORTING" /\ new = "DOWNLOADING"
  \/ old = "DOWNLOADING" /\ new = "COMPLETE"

\* C10: an item's status changes only from BACKING to EXPORTING (export
\* types only) or to DOWNLOADING (other types only), from EXPORTING to
\* DOWNLOADING, and from DOWNLOADING to COMPLETE; an attempt starts at BACKING.
C10_StatusOrder ==
  [][\A i \in Seeded :
       backup_log'.items[i].status # backup_log.items[i].status
       => StatusStep(i, backup_log.items[i].status,
                     backup_log'.items[i].status)]_vars

C10_Witness ==
  \E i, j \in Seeded :
    /\ backup_log.items[i].status = "COMPLETE"
    /\ filtered_items[i].type \in ExportTypes
    /\ backup_log.items[j].status = "COMPLETE"
    /\ filtered_items[j].type \notin ExportTypes

StatusEnum ==
  {"PENDING", "BACKING", "EXPORTING", "DOWNLOADING", "COMPLETE", "FAILED"}

\* the run directory or one of its subdirectories could not be created
CreationFailed == pc # "create" /\ backup_log.info.date = <<>>

\* C11 (as claimed, for a run whose directory was created): in every
\* persisted snapshot every seeded item's status is one of the six statuses,
\* and an item no attempt has begun on is PENDING.
C11_PersistedStatusInEnum ==
  (disk.state = "written" /\ ~CreationFailed) =>
    \A i \in 1..Len(disk.doc.items) :
      /\ disk.doc.items[i].status \in StatusEnum
      /\ (i \in DOMAIN attempts /\ attempts[i] = 0)
           => disk.doc.items[i].status = "PENDING"

\* C12 (as claimed): once items are seeded, every change of an item's
\* status or retry counter is on disk before the next change is made: after
\* each step the ledger file holds the item records of the ledger in memory.
C12_EveryChangePersisted ==
  Seeded # {} =>
    /\ disk.state = "written"
    /\ disk.doc.items = backup_log.items

\* C13 (as claimed, for archive_number >= 1): when creating the run
\* directory or a subdirectory fails, no older generation is evicted and
\* no item is backed up afterwards.
C13_CreationFailureAborts ==
  (CreationFailed /\ archive_number >= 1) =>
    /\ evicted \subseteq {directory_name}
    /\ \A i \in DOMAIN attempts : attempts[i] = 0

\* the archive root is over the limit and no directory in it has a date
OverLimitNoDates ==
  /\ rootExists
  /\ ~WithinLimit(existing_directories(entries), archive_number)
  /\ \A e \in existing_directories(entries) : ParsedDate(e) = NoDate

\* C14 (as claimed, for archive_number >= 1): over the limit with no dated
\* directory, the retention pass stops and the run is not aborted.
C14_NoCandidateIsNotFatal ==
  (OverLimitNoDates /\ archive_number >= 1) => pc # "aborted"

InRange(seq, x) == \E k \in 1..Len(seq) : seq[k] = x

\* the attempt under way has ended: backup_item returned or raised
AttemptEnded == pc \in {"returned", "run_except"}

\* the attempt under way got its export from the provider
ExportCreated ==
  /\ cur.item \in Seeded
  /\ filtered_items[cur.item].type \in ExportTypes
  /\ backup_log.items[cur.item].status = "DOWNLOADING"
  /\ item_filename # NoName

\* C15: with remote cleanup configured, an attempt that created an export
\* has called delete_item for it by the time it ends, on success and on
\* failure.
C15_ExportDeletedBeforeAttemptEnds ==
  (AttemptEnded /\ delete_backup_online /\ ExportCreated)
  => InRange(delete_calls, item_filename)

C15_Witness ==
  /\ pc = "run_except"
  /\ delete_backup_online
  /\ ExportCreated
  /\ InRange(delete_calls, item_filename)

C15_WitnessSuccess ==
  /\ pc = "returned"
  /\ delete_backup_online
  /\ ExportCreated
  /\ InRange(delete_calls, item_filename)

\* C16 (as claimed): an attempt whose download succeeded never ends in the
\* except clause because its cleanup failed.
C16_CleanupFailureKeepsOutcome ==
  ~(pc = "except" /\ InRange(delete_calls, item_filename))

\* C17 (as claimed): a delay lies between any two consecutive pipeline
\* invocations.
C17_DelayBetweenInvocations == time_slept >= Sum(attempts) - 1

\* C18 (as claimed): when no item passes the filter the run ends by exit()
\* right after writing the ledger with total items = 0; nothing is seeded,
\* queued, attempted or downloaded.
C18_NoItemsAbortsAfterPersist ==
  backup_log.info.total_items = 0 =>
    /\ pc = "aborted"
    /\ exc = "SystemExit"
    /\ disk.state = "written"
    /\ disk.doc.info.total_items = 0
    /\ disk.doc.items = <<>>
    /\ backup_log.items = <<>>
    /\ request_queue = <<>>
    /\ attempts = <<>>
    /\ downloaded = 0
    /\ exported = {}

QueueRetries(i) ==
  {request_queue[k].retry : k \in {n \in 1..Len(request_queue) :
                                     request_queue[n].item = i}}

RetriesBounded ==
  \A i \in DOMAIN attempts :
    /\ backup_log.items[i].retries <= max_retries
    /\ attempts[i] <= max_retries
    /\ QueueRetries(i) \subseteq {backup_log.items[i].retries}
    /\ cur.item = i => cur.retry = backup_log.items[i].retries
    /\ backup_log.items[i].status = "COMPLETE" => QueueRetries(i) = {}

CompleteIsFinal ==
  \A i \in Seeded :
    backup_log.items[i].status = "COMPLETE"
    => backup_log'.items[i].status = "COMPLETE"

\* C19: every item's retry counter is at most max_retries and the same in
\* its queue entry and in the ledger, the pipeline is invoked at most
\* max_retries times per item, and a COMPLETE item is not in the queue and
\* keeps its status.
C19_RetriesBoundedCompleteFinal ==
  []RetriesBounded /\ [][CompleteIsFinal]_vars

C19_Witness ==
  \E i \in DOMAIN attempts :
    /\ max_retries = 2
    /\ attempts[i] = 1
    /\ backup_log.items[i].retries = 1
    /\ cur = [item |-> i, retry |-> 1]

DeleteCalled == Len(delete_calls') = Len(delete_calls) + 1

\* C20 (as claimed): delete_item is only called with the name of an export
\* the attempt under way created.
C20_DeleteOnlyCreatedExport ==
  [][DeleteCalled => delete_calls'[Len(delete_calls')] \in exported]_vars

\* C20 (amended): delete_item is only called with the name the attempt
\* under way gave its export request (title, suffix and a fresh token),
\* only for an item of an export type whose attempt reached the export
\* call, and only when remote cleanup is configured.
C20_DeleteOnlyRequestedExport ==
  [][DeleteCalled =>
       LET name == delete_calls'[Len(delete_calls')]
       IN /\ delete_backup_online
          /\ cur.item \in Seeded
          /\ filtered_items[cur.item].type \in ExportTypes
          /\ backup_log.items[cur.item].status \in {"EXPORTING", "DOWNLOADING"}
          /\ name = [title |-> cur.item, token |-> Sum(attempts)]
          /\ name.token >= 1]_vars

C20_Witness ==
  /\ pc = "run_except"
  /\ backup_log.items[cur.item].status = "EXPORTING"
  /\ InRange(delete_calls, item_filename)
  /\ item_filename \notin exported

====
